---- MODULE Spec2Model ----
(***************************************************************************)
(* Model of server.js: an Express image CDN.  POST /upload converts an     *)
(* image to WebP and stores it under a generated name, DELETE              *)
(* /delete/:filename removes a stored file, GET /images/<name> serves the  *)
(* store statically and GET / is a health check.  checkDomain restricts    *)
(* the two mutating routes to an allow-list of origins.                    *)
(*                                                                         *)
(* Strings that the code inspects character by character (file names) are  *)
(* sequences of atoms.  The atoms "." and "/" are the characters the code  *)
(* looks for; every other atom is a run of characters holding neither.     *)
(***************************************************************************)
EXTENDS Integers, Sequences, FiniteSets, TLC

VARIABLES store, req, nextUuid, probe

vars == <<store, req, nextUuid, probe>>

----------------------------------------------------------------------------
(* Bounds of the model *)

\* uuidv4() tokens handed out in one run
MaxUuid == 2

\* request slots; Spec keeps one request in flight, SpecGate and SpecConc
\* use both
Slots == {"r1", "r2"}

----------------------------------------------------------------------------
(* Configuration, server.js:17-20, 66-78 *)

allowedDomainsForCRUD == <<"http://localhost:5500", "http://127.0.0.1:5500">>

\* limits.fileSize
fileSize == 10 * 1024 * 1024

allowedMimes == <<"image/jpeg", "image/png", "image/gif", "image/webp">>

\* the filesystem's limit on one directory entry's name, in bytes
NAME_MAX == 255

\* bytes a read of the request stream delivers at most
ChunkSize == 4194304

----------------------------------------------------------------------------
(* Strings as sequences of atoms *)

Range(s) == {s[i] : i \in 1..Len(s)}

\* bytes of one atom: "L" is a run of 214 letters, a uuid has 36 characters
AtomLen(a) ==
    CASE a = "L" -> 214
      [] a \in {"u1", "u2", "u3", "u4", "u5"} -> 36
      [] a = "webp" -> 4
      [] a \in {"jpg", "png", "gif"} -> 3
      [] OTHER -> 1

RECURSIVE ByteLen(_)
ByteLen(s) == IF s = <<>> THEN 0 ELSE AtomLen(Head(s)) + ByteLen(Tail(s))

\* String.prototype.includes: sub occurs in s as a contiguous run
Includes(s, sub) ==
    \E i \in 1..(Len(s) - Len(sub) + 1) : SubSeq(s, i, i + Len(sub) - 1) = sub

\* Array.prototype.includes
ArrayIncludes(arr, x) == \E i \in 1..Len(arr) : arr[i] = x

\* the "/"-separated segments of s, empty segments included
RECURSIVE Split(_)
Split(s) ==
    IF \A i \in 1..Len(s) : s[i] # "/"
    THEN <<s>>
    ELSE LET k == CHOOSE i \in 1..Len(s) :
                      s[i] = "/" /\ \A j \in 1..(i - 1) : s[j] # "/"
         IN  <<SubSeq(s, 1, k - 1)>> \o Split(SubSeq(s, k + 1, Len(s)))

----------------------------------------------------------------------------
(* node:path, POSIX flavour *)

\* the part of p after its last "/", trailing "/" dropped first
RECURSIVE Basename(_)
Basename(p) ==
    IF p # <<>> /\ p[Len(p)] = "/"
    THEN Basename(SubSeq(p, 1, Len(p) - 1))
    ELSE LET segs == Split(p) IN segs[Len(segs)]

\* path.parse(p).name: the basename without its extension.  The extension
\* starts at the last "."; there is none when the basename has no ".", when
\* its only "." is its first character, or when the basename is ".."
PathParseName(p) ==
    LET base == Basename(p)
        dots == {i \in 1..Len(base) : base[i] = "."}
        startDot == IF dots = {} THEN 0
                    ELSE CHOOSE i \in dots : \A j \in dots : j <= i
    IN  IF startDot = 0 \/ startDot = 1 \/ base = <<".", ".">>
        THEN base
        ELSE SubSeq(base, 1, startDot - 1)

\* path.normalize applied to the segments of a relative path: "." and empty
\* segments vanish, ".." removes the segment before it, or stays when there
\* is none to remove (the path then leaves the directory it is joined to)
RECURSIVE NormalizeSegs(_, _)
NormalizeSegs(segs, acc) ==
    IF segs = <<>> THEN acc
    ELSE LET h == Head(segs) IN
         IF h = <<>> \/ h = <<".">>
         THEN NormalizeSegs(Tail(segs), acc)
         ELSE IF h = <<".", ".">> /\ acc # <<>> /\ acc[Len(acc)] # <<".", ".">>
         THEN NormalizeSegs(Tail(segs), SubSeq(acc, 1, Len(acc) - 1))
         ELSE NormalizeSegs(Tail(segs), Append(acc, h))

\* path.join(imagesDir, filename), as segments relative to imagesDir
PathJoin(filename) == NormalizeSegs(Split(filename), <<>>)

\* the joined path names an entry outside imagesDir
OutsideRoot(path) == path # <<>> /\ path[1] = <<".", ".">>

----------------------------------------------------------------------------
(* Requests *)

\* the value of req.headers.origin; "" is an absent header
Origins ==
    {"", "http://localhost:5500", "http://127.0.0.1:5500",
     "http://localhost:5500.evil.example"}

Methods == {"GET", "HEAD", "OPTIONS", "POST", "DELETE", "PUT", "PATCH"}

\* req.file.originalname as the client sends it
OriginalNames ==
    { <<"a", ".", "jpg">>,
      <<".", "a", ".", "png">>,
      <<"a", ".", ".", "a", ".", "gif">>,
      <<"a", "/", "a", ".", "webp">>,
      <<"L", ".", "png">> }

\* declared media types of an uploaded part
MimeTypes ==
    {"image/jpeg", "image/png", "image/gif", "image/webp", "image/svg+xml"}

\* total bytes of an uploaded part
FileSizes == {1, fileSize, fileSize + 1}

\* req.file.buffer: two images that decode, one byte string that does not
Buffers == {"img1", "img2", "junk"}

\* names a client asks to delete or read besides the stored ones
FixedNames ==
    { <<"a", ".", "webp">>,
      <<".", ".", "/", "a">>,
      <<".", ".">>,
      <<"a", "/", "a">>,
      <<".">>,
      <<"L", "L">> }

NoFile == [present |-> FALSE, fieldname |-> "", mimetype |-> ""]

\* a slot with no request in it
IdleReq ==
    [ pc |-> "idle", kind |-> "none", method |-> "", origin |-> "",
      ctype |-> "", name |-> <<>>, file |-> NoFile, originalname |-> <<>>,
      size |-> 0, buffered |-> 0, buffer |-> "",
      filename |-> <<>>, path |-> <<>>,
      gated |-> FALSE, fileRead |-> FALSE, normalized |-> FALSE,
      unlinked |-> FALSE, cut |-> FALSE,
      status |-> 0, message |-> "", body |-> <<>>, error |-> <<>> ]

NoProbe == [method |-> "", origin |-> "", next |-> FALSE, status |-> 0]

\* a token generator that returns the same token every time
UuidRepeated(n) == "u1"

\* the n-th token uuidv4() returns; tokens never repeat
Uuid(n) == <<"u1", "u2", "u3", "u4", "u5">>[n]

----------------------------------------------------------------------------
(* Responses and middleware, server.js:30-78, 152-159 *)

Response(status, message) ==
    [status |-> status, message |-> message, body |-> <<>>, error |-> <<>>]

\* the origin test of checkDomain: present and an entry of the allow-list
OriginAllowed(origin) ==
    origin # "" /\ ArrayIncludes(allowedDomainsForCRUD, origin)

\* a cors callback that refuses the origins checkDomain refuses
corsOriginAllowList(origin) ==
    [err |-> ~OriginAllowed(origin), allow |-> OriginAllowed(origin)]

\* cors({origin: (origin, callback) => callback(null, true)}): no error, and
\* every origin is allowed
corsOrigin(origin) == [err |-> FALSE, allow |-> TRUE]

\* checkDomain: next() or a 403 response
checkDomain(method, origin) ==
    IF method \in {"POST", "DELETE", "PUT", "PATCH"}
    THEN IF OriginAllowed(origin)
         THEN [next |-> TRUE, status |-> 0, message |-> ""]
         ELSE [next |-> FALSE, status |-> 403,
               message |-> "Forbidden: Akses dari domain ini tidak diizinkan."]
    ELSE [next |-> TRUE, status |-> 0, message |-> ""]

\* a file filter that lets every declared type through
fileFilterAcceptAll(mimetype) == [err |-> "", accept |-> TRUE]

\* upload.fileFilter: cb(null, true) or cb(new Error(...), false)
fileFilter(mimetype) ==
    IF ArrayIncludes(allowedMimes, mimetype)
    THEN [err |-> "", accept |-> TRUE]
    ELSE [err |-> "Jenis file tidak valid. Hanya gambar yang diizinkan.",
          accept |-> FALSE]

\* what Express answers an error with when the application has no error
\* handler of its own: 500 and an HTML page
ErrorHandlerDefault(errMessage) == Response(500, "")

\* the error-handling middleware: both of its branches answer 400 with the
\* error's message
ErrorHandler(errMessage) == Response(400, errMessage)

\* the answer when no middleware and no route takes the request
NoRoute == Response(404, "Cannot GET")

\* messages of errors raised inside the libraries
MsgJsonParse == "Unexpected token in JSON"
MsgUnexpectedField == "Unexpected field"
MsgFileTooLarge == "File too large"

\* the last segment of a path starts with "."
IsDotFile(segs) == segs # <<>> /\ segs[Len(segs)] # <<>> /\ segs[Len(segs)][1] = "."

\* express.static(imagesDir) with its default options: a path with a ".."
\* segment and a dot file are not served, a file of the directory is
ServeStatic(name, st) ==
    LET segs == Split(name) IN
    IF (\E i \in 1..Len(segs) : segs[i] = <<".", ".">>) \/ IsDotFile(segs)
    THEN [found |-> FALSE, body |-> <<>>]
    ELSE IF name \in DOMAIN st
    THEN [found |-> TRUE, body |-> st[name]]
    ELSE [found |-> FALSE, body |-> <<>>]

\* sharp(buffer) can decode the bytes
Decodable(buffer) == buffer \in {"img1", "img2"}

\* sharp(buffer).webp({quality: 80}): the re-encoded image
WebP(buffer) == <<"webp", "q80", buffer>>

\* the file write of toFile(outputPath) succeeds
Writable(filename) == ByteLen(filename) <= NAME_MAX

\* a stored name built from the original name alone
UniqueFilenameNoToken(originalname, uuid) ==
    PathParseName(originalname) \o <<".", "webp">>

\* `${originalName}-${uuidv4()}.webp`
UniqueFilename(originalname, uuid) ==
    PathParseName(originalname) \o <<"-", uuid, ".", "webp">>

\* a name check that looks for the separator only
InvalidNameSlashOnly(filename) == Includes(filename, <<"/">>)

\* the delete route's name check: TRUE when the name is refused
InvalidName(filename) ==
    Includes(filename, <<".", ".">>) \/ Includes(filename, <<"/">>)

\* fs.unlink(filePath): the error code, or "ok"
Unlink(path, st) ==
    IF path = <<>> THEN "EISDIR"
    ELSE IF OutsideRoot(path) \/ Len(path) > 1 THEN "ENOENT"
    ELSE IF ByteLen(path[1]) > NAME_MAX THEN "ENAMETOOLONG"
    ELSE IF path[1] \in DOMAIN st THEN "ok"
    ELSE "ENOENT"

\* the routes with checkDomain listed after the middleware it should guard
RouteChainGateLast(kind) ==
    IF kind = "upload"
    THEN <<"multer", "checkDomain", "uploadHandler">>
    ELSE <<"deleteHandler", "checkDomain">>

\* the middleware of a route, in the order app.post / app.delete list them
RouteChain(kind) ==
    IF kind = "upload"
    THEN <<"checkDomain", "multer", "uploadHandler">>
    ELSE <<"checkDomain", "deleteHandler">>

\* the middleware that next() hands the request to
NextStage(kind, stage) ==
    LET chain == RouteChain(kind)
        i == CHOOSE j \in 1..Len(chain) : chain[j] = stage
    IN  IF i < Len(chain) THEN chain[i + 1] ELSE "end"

----------------------------------------------------------------------------
(* State *)

\* store: the files of imagesDir, name -> content
\* req:   the request each slot is handling and how far it has got
\* nextUuid: index of the next uuidv4() token
\* probe: checkDomain's answer to a request given to it directly
Init ==
    /\ store = [n \in {} |-> <<>>]
    /\ req = [s \in Slots |-> IdleReq]
    /\ nextUuid = 1
    /\ probe = NoProbe

\* names a client can ask for: the fixed ones and every name an upload can get
GenNames == {UniqueFilename(o, Uuid(n)) : o \in OriginalNames, n \in 1..MaxUuid}

Names == FixedNames \cup GenNames

Min(a, b) == IF a < b THEN a ELSE b

\* the slot's request answered with resp
Done(r, resp) ==
    [r EXCEPT !.pc = "done", !.status = resp.status, !.message = resp.message,
              !.body = resp.body, !.error = resp.error]

\* the slot's request handed to the middleware after stage
Advance(r, stage) ==
    LET n == NextStage(r.kind, stage) IN
    IF n = "end" THEN Done(r, NoRoute) ELSE [r EXCEPT !.pc = n]

\* uploads that have arrived and not yet drawn their uuid
PendingUploads ==
    {t \in Slots : req[t].kind = "upload" /\ req[t].pc \notin {"idle", "done", "sharp"}}

----------------------------------------------------------------------------
(* A request arrives *)

ArriveUpload(s) ==
    /\ req[s].pc = "idle"
    /\ probe = NoProbe
    /\ nextUuid + Cardinality(PendingUploads) <= MaxUuid
    /\ \E o \in Origins, ct \in {"multipart", "json", "none"} :
         req' = [req EXCEPT ![s] = [IdleReq EXCEPT !.pc = "arrived",
                    !.kind = "upload", !.method = "POST", !.origin = o, !.ctype = ct]]
    /\ UNCHANGED <<store, nextUuid, probe>>

ArriveDelete(s) ==
    /\ req[s].pc = "idle"
    /\ probe = NoProbe
    /\ \E o \in Origins, ct \in {"none", "json"}, n \in Names :
         req' = [req EXCEPT ![s] = [IdleReq EXCEPT !.pc = "arrived",
                    !.kind = "delete", !.method = "DELETE", !.origin = o,
                    !.ctype = ct, !.name = n]]
    /\ UNCHANGED <<store, nextUuid, probe>>

ArriveRead(s) ==
    /\ req[s].pc = "idle"
    /\ probe = NoProbe
    /\ \E o \in Origins, n \in Names :
         req' = [req EXCEPT ![s] = [IdleReq EXCEPT !.pc = "arrived",
                    !.kind = "read", !.method = "GET", !.origin = o,
                    !.ctype = "none", !.name = n]]
    /\ UNCHANGED <<store, nextUuid, probe>>

ArriveHealth(s) ==
    /\ req[s].pc = "idle"
    /\ probe = NoProbe
    /\ \E o \in Origins :
         req' = [req EXCEPT ![s] = [IdleReq EXCEPT !.pc = "arrived",
                    !.kind = "health", !.method = "GET", !.origin = o,
                    !.ctype = "none"]]
    /\ UNCHANGED <<store, nextUuid, probe>>

----------------------------------------------------------------------------
(* server.js:30-45, 147-149: cors, express.static, the health route *)

\* the answer to GET /images/<name>: the file, or 404 when express.static
\* passes the request on and nothing else takes it
GetImage(origin, name, st) ==
    LET c == corsOrigin(origin)
        f == ServeStatic(name, st)
    IN  IF c.err THEN ErrorHandler("Not allowed by CORS")
        ELSE IF f.found THEN [Response(200, "") EXCEPT !.body = f.body]
        ELSE NoRoute

\* the answer to GET /
GetRoot(origin) ==
    IF corsOrigin(origin).err THEN ErrorHandler("Not allowed by CORS")
    ELSE [Response(200, "") EXCEPT !.body = <<"Server CDN Sederhana berjalan!">>]

Dispatch(s) ==
    /\ req[s].pc = "arrived"
    /\ LET r == req[s] IN
       req' = [req EXCEPT ![s] =
           IF r.kind = "read" THEN Done(r, GetImage(r.origin, r.name, store))
           ELSE IF r.kind = "health" THEN Done(r, GetRoot(r.origin))
           ELSE IF corsOrigin(r.origin).err
           THEN Done(r, ErrorHandler("Not allowed by CORS"))
           ELSE IF r.ctype = "json" THEN [r EXCEPT !.pc = "json"]
           ELSE [r EXCEPT !.pc = RouteChain(r.kind)[1]]]
    /\ UNCHANGED <<store, nextUuid, probe>>

\* server.js:45: express.json() reads a JSON body and parses it; a body that
\* does not parse goes to the error handler
JsonBody(s) ==
    /\ req[s].pc = "json"
    /\ \E parses \in BOOLEAN :
         req' = [req EXCEPT ![s] =
             IF parses THEN [req[s] EXCEPT !.pc = RouteChain(req[s].kind)[1]]
             ELSE Done(req[s], ErrorHandler(MsgJsonParse))]
    /\ UNCHANGED <<store, nextUuid, probe>>

\* server.js:48-61 as the first middleware of a route
CheckDomainStep(s) ==
    /\ req[s].pc = "checkDomain"
    /\ LET r == req[s]
           g == checkDomain(r.method, r.origin)
       IN  req' = [req EXCEPT ![s] =
               IF g.next THEN Advance([r EXCEPT !.gated = TRUE], "checkDomain")
               ELSE Done(r, Response(g.status, g.message))]
    /\ UNCHANGED <<store, nextUuid, probe>>

----------------------------------------------------------------------------
(* server.js:65-78: upload.single('image') *)

\* The parts a multipart body can open with: none, or one file part
FileParts ==
    {NoFile} \cup [present : {TRUE}, fieldname : {"image", "other"},
                   mimetype : MimeTypes]

\* busboy's test of limits.fileSize after nsize bytes of a file.  Releases
\* before 1.0 stop a file when it grows past the limit, later ones when it
\* reaches it; server.js does not fix the release, so either can be
\* installed (inclusive is the later behaviour)
LimitHit(nsize, inclusive) ==
    IF inclusive THEN nsize >= fileSize ELSE nsize > fileSize

\* multer starts on the request: a body that is not multipart is passed on
\* untouched; a file part in another field than "image" is an error; the
\* file filter decides on the part before any of its bytes are kept
MulterHeader(s) ==
    /\ req[s].pc = "multer"
    /\ LET r == req[s] IN
       IF r.ctype # "multipart"
       THEN req' = [req EXCEPT ![s] = Advance(r, "multer")]
       ELSE \E part \in FileParts, size \in FileSizes :
              LET rp == [r EXCEPT !.file = part, !.fileRead = part.present]
                  ff == fileFilter(part.mimetype)
              IN  req' = [req EXCEPT ![s] =
                      IF ~part.present THEN Advance(rp, "multer")
                      ELSE IF part.fieldname # "image"
                      THEN Done(rp, ErrorHandler(MsgUnexpectedField))
                      ELSE IF ff.err # "" THEN Done(rp, ErrorHandler(ff.err))
                      ELSE IF ~ff.accept THEN Advance([rp EXCEPT !.file = NoFile], "multer")
                      ELSE [rp EXCEPT !.pc = "reading", !.size = size]]
    /\ UNCHANGED <<store, nextUuid, probe>>

\* memoryStorage buffers the file chunk by chunk; when the limit is hit the
\* file is cut at the limit and the request fails with LIMIT_FILE_SIZE
MulterRead(s) ==
    /\ req[s].pc = "reading"
    /\ LET r == req[s]
           nsize == Min(r.buffered + ChunkSize, r.size)
       IN  \E inclusive \in BOOLEAN :
             req' = [req EXCEPT ![s] =
                 IF LimitHit(nsize, inclusive)
                 THEN Done([r EXCEPT !.buffered = Min(nsize, fileSize)],
                           ErrorHandler(MsgFileTooLarge))
                 ELSE IF nsize = r.size
                 THEN Advance([r EXCEPT !.buffered = nsize], "multer")
                 ELSE [r EXCEPT !.buffered = nsize]]
    /\ UNCHANGED <<store, nextUuid, probe>>

----------------------------------------------------------------------------
(* server.js:87-118: the upload handler *)

\* a catch block that answers as the error handler does
ProcessingFailureAs400(errMessage) ==
    [Response(400, "Terjadi kesalahan pada server saat memproses gambar.")
        EXCEPT !.error = errMessage]

\* the catch block's answer
ProcessingFailure(errMessage) ==
    [Response(500, "Terjadi kesalahan pada server saat memproses gambar.")
        EXCEPT !.error = errMessage]

\* the answer after a successful conversion
Created(filename) ==
    [Response(201, "Gambar berhasil diunggah dan dikonversi ke WebP.")
        EXCEPT !.body = filename]

\* lines 88-100 up to the await: no file is a 400; otherwise the name is
\* generated and sharp is started
UploadHandler(s) ==
    /\ req[s].pc = "uploadHandler"
    /\ LET r == req[s] IN
       IF ~r.file.present
       THEN /\ req' = [req EXCEPT ![s] =
                   Done(r, Response(400, "Tidak ada file gambar yang diunggah."))]
            /\ UNCHANGED nextUuid
       ELSE /\ \E o \in OriginalNames :
                 req' = [req EXCEPT ![s] = [r EXCEPT !.pc = "sharp",
                            !.originalname = o,
                            !.filename = UniqueFilename(o, Uuid(nextUuid))]]
            /\ nextUuid' = nextUuid + 1
    /\ UNCHANGED <<store, probe>>

\* what toFile leaves at outputPath when it fails after it has opened the
\* file: the bytes written so far, possibly none
Partial(buffer) == <<"webp", "q80", "cut">>

\* lines 98-117: sharp decodes the buffer, encodes it as WebP and writes the
\* file; a failure of either is caught.  toFile opens outputPath itself and
\* writes to it, so a failure after the open (the disk fills up, the image
\* data ends early) leaves the file behind: the catch block removes nothing
SharpDone(s) ==
    /\ req[s].pc = "sharp"
    /\ \E b \in Buffers, partWay \in BOOLEAN :
         LET r == [req[s] EXCEPT !.buffer = b, !.normalized = TRUE] IN
         IF ~Decodable(b)
         THEN /\ req' = [req EXCEPT ![s] = Done(r, ProcessingFailure(
                             <<"Input buffer contains unsupported image format">>))]
              /\ UNCHANGED store
         ELSE IF ~Writable(r.filename)
         THEN /\ req' = [req EXCEPT ![s] = Done(r, ProcessingFailure(
                             <<"unable to open for write", "imagesDir", "/">> \o r.filename))]
              /\ UNCHANGED store
         ELSE IF partWay
         THEN /\ req' = [req EXCEPT ![s] = Done([r EXCEPT !.cut = TRUE],
                             ProcessingFailure(
                                 <<"write failed", "imagesDir", "/">> \o r.filename))]
              /\ store' = [n \in DOMAIN store \cup {r.filename} |->
                              IF n = r.filename THEN Partial(b) ELSE store[n]]
         ELSE /\ req' = [req EXCEPT ![s] = Done(r, Created(r.filename))]
              /\ store' = [n \in DOMAIN store \cup {r.filename} |->
                              IF n = r.filename THEN WebP(b) ELSE store[n]]
    /\ UNCHANGED <<nextUuid, probe>>

----------------------------------------------------------------------------
(* server.js:125-144: the delete handler *)

DeleteHandler(s) ==
    /\ req[s].pc = "deleteHandler"
    /\ LET r == req[s] IN
       req' = [req EXCEPT ![s] =
           IF InvalidName(r.name)
           THEN Done(r, Response(400, "Nama file tidak valid."))
           ELSE [r EXCEPT !.pc = "unlink", !.path = PathJoin(r.name)]]
    /\ UNCHANGED <<store, nextUuid, probe>>

\* the answer of the fs.unlink callback
UnlinkResponse(code) ==
    IF code = "ok" THEN Response(200, "File berhasil dihapus.")
    ELSE IF code = "ENOENT" THEN Response(404, "File tidak ditemukan.")
    ELSE Response(500, "Gagal menghapus file.")

UnlinkDone(s) ==
    /\ req[s].pc = "unlink"
    /\ LET r == [req[s] EXCEPT !.unlinked = TRUE]
           code == Unlink(r.path, store)
       IN  /\ req' = [req EXCEPT ![s] = Done(r, UnlinkResponse(code))]
           /\ store' = IF code = "ok"
                       THEN [n \in DOMAIN store \ {r.path[1]} |-> store[n]]
                       ELSE store
    /\ UNCHANGED <<nextUuid, probe>>

\* the response has been sent: the slot is free again
Recycle(s) ==
    /\ req[s].pc = "done"
    /\ req' = [req EXCEPT ![s] = IdleReq]
    /\ UNCHANGED <<store, nextUuid, probe>>

----------------------------------------------------------------------------
(* The server, one request at a time *)

Next ==
    \E s \in {"r1"} :
        \/ ArriveUpload(s)
        \/ ArriveDelete(s)
        \/ ArriveRead(s)
        \/ ArriveHealth(s)
        \/ Dispatch(s)
        \/ JsonBody(s)
        \/ CheckDomainStep(s)
        \/ MulterHeader(s)
        \/ MulterRead(s)
        \/ UploadHandler(s)
        \/ SharpDone(s)
        \/ DeleteHandler(s)
        \/ UnlinkDone(s)
        \/ Recycle(s)

Spec == Init /\ [][Next]_vars

----------------------------------------------------------------------------
(* The public side alone: reads and health checks against a store that     *)
(* uploads have filled, and checkDomain applied to requests of any method  *)

GateStores ==
    { [n \in {} |-> <<>>],
      [n \in {UniqueFilename(<<"a", ".", "jpg">>, Uuid(1))} |-> WebP("img1")],
      [n \in {UniqueFilename(<<".", "a", ".", "png">>, Uuid(1))} |-> WebP("img2")] }

InitGate ==
    /\ store \in GateStores
    /\ req = [s \in Slots |-> IdleReq]
    /\ nextUuid = IF DOMAIN store = {} THEN 1 ELSE 2
    /\ probe = NoProbe

\* checkDomain(req, res, next) called with a request of method m, origin o
GateCall ==
    /\ probe = NoProbe
    /\ \A s \in Slots : req[s].pc = "idle"
    /\ \E m \in Methods, o \in Origins :
         LET g == checkDomain(m, o) IN
         probe' = [method |-> m, origin |-> o, next |-> g.next, status |-> g.status]
    /\ UNCHANGED <<store, req, nextUuid>>

GateReturn ==
    /\ probe # NoProbe
    /\ probe' = NoProbe
    /\ UNCHANGED <<store, req, nextUuid>>

NextGate ==
    \/ \E s \in Slots :
          \/ ArriveRead(s)
          \/ ArriveHealth(s)
          \/ Dispatch(s)
          \/ Recycle(s)
    \/ GateCall
    \/ GateReturn

SpecGate == InitGate /\ [][NextGate]_vars

----------------------------------------------------------------------------
(* Two requests in flight at once.  Node runs each callback to its end, so  *)
(* the steps of two requests interleave at the asynchronous calls: the      *)
(* stream reads of multer, the await of toFile, the callback of fs.unlink.  *)
(* Each slot takes one request; the store starts empty or with a file an    *)
(* earlier upload has left.  The requests come from a narrower set than in  *)
(* Spec: one allowed and one other origin, no JSON bodies, one-byte PNG     *)
(* parts in field "image", two original names.                              *)

ConcOriginals == { <<"a", ".", "jpg">>, <<"a", ".", ".", "a", ".", "gif">> }

ConcNames ==
    {UniqueFilename(o, Uuid(n)) : o \in ConcOriginals, n \in 1..MaxUuid}
        \cup {<<"a", ".", "webp">>}

ConcStores ==
    { [n \in {} |-> <<>>],
      [n \in {UniqueFilename(<<"a", ".", "jpg">>, Uuid(1))} |-> WebP("img1")],
      [n \in {UniqueFilename(<<"a", ".", ".", "a", ".", "gif">>, Uuid(1))}
          |-> WebP("img2")] }

InitConc ==
    /\ store \in ConcStores
    /\ req = [s \in Slots |-> IdleReq]
    /\ nextUuid = IF DOMAIN store = {} THEN 1 ELSE 2
    /\ probe = NoProbe

\* the requests of this specification
ConcInputs(r) ==
    /\ r.origin \in {"", "http://localhost:5500", "http://localhost:5500.evil.example"}
    /\ r.origin = "" => r.pc = "idle"
    /\ r.ctype \in {"", "multipart", "none"}
    /\ r.file.present => (r.file.fieldname = "image" /\ r.file.mimetype = "image/png")
    /\ r.size \in {0, 1}
    /\ r.originalname \in ConcOriginals \cup {<<>>}
    /\ r.buffer \in {"", "img1", "img2"}
    /\ r.kind = "delete" => r.name \in ConcNames

NextConc ==
    \E s \in Slots :
        \/ ArriveUpload(s) /\ ConcInputs(req'[s])
        \/ ArriveDelete(s) /\ ConcInputs(req'[s])
        \/ Dispatch(s) /\ ConcInputs(req'[s])
        \/ CheckDomainStep(s) /\ ConcInputs(req'[s])
        \/ MulterHeader(s) /\ ConcInputs(req'[s])
        \/ MulterRead(s) /\ ConcInputs(req'[s])
        \/ UploadHandler(s) /\ ConcInputs(req'[s])
        \/ SharpDone(s) /\ ConcInputs(req'[s])
        \/ DeleteHandler(s) /\ ConcInputs(req'[s])
        \/ UnlinkDone(s) /\ ConcInputs(req'[s])

SpecConc == InitConc /\ [][NextConc]_vars

----------------------------------------------------------------------------
(* Properties *)

\* the origin is present and equals an entry of the allow-list
InAllowList(origin) == origin # "" /\ origin \in Range(allowedDomainsForCRUD)

Mutating(r) == r.kind \in {"upload", "delete"}

Answered(r) == r.pc = "done"

\* C1: every POST /upload and DELETE /delete/<x> whose origin is absent or
\* not in the allow-list is answered 403, whatever the request carries.
C1_DeniedOriginIs403 ==
    \A s \in Slots :
        (Answered(req[s]) /\ Mutating(req[s]) /\ ~InAllowList(req[s].origin))
            => req[s].status = 403

\* C2: nothing of a mutating request happens before the gate has allowed it:
\* a request that has had a file part read, sharp run or unlink called has
\* passed checkDomain with an origin of the allow-list, a request answered
\* 403 has had none of these, and every step that changes the store is a
\* step of a request the gate has allowed.
C2_NoEffectBeforeGate ==
    \A s \in Slots :
        LET r == req[s] IN
        /\ (r.fileRead \/ r.normalized \/ r.unlinked \/ r.pc \in {"sharp", "unlink"})
              => (r.gated /\ InAllowList(r.origin))
        /\ (Answered(r) /\ r.status = 403)
              => (~r.gated /\ ~r.fileRead /\ ~r.normalized /\ ~r.unlinked)

C2_StoreStep ==
    store' # store =>
        \E s \in Slots :
            /\ req[s].gated
            /\ InAllowList(req[s].origin)
            /\ req'[s] # req[s]
            /\ \A t \in Slots \ {s} : req'[t] = req[t]

C2_GateFirst == []C2_NoEffectBeforeGate /\ [][C2_StoreStep]_vars

\* C2 witness: a denied upload has been answered while the store holds a file
C2_Witness ==
    \E s \in Slots :
        /\ Answered(req[s]) /\ req[s].status = 403
        /\ req[s].kind = "upload" /\ req[s].ctype = "multipart"
        /\ DOMAIN store # {}

\* C3: a file an upload has answered 201 for is served by GET /images/<F>
\* with the re-encoded content to every origin, and a file a delete has
\* answered 200 for is answered 404.
C3_RoundTrip ==
    \A s \in Slots :
        LET r == req[s] IN
        /\ (Answered(r) /\ r.kind = "upload" /\ r.status = 201)
              => \A o \in Origins :
                    /\ GetImage(o, r.body, store).status = 200
                    /\ GetImage(o, r.body, store).body = WebP(r.buffer)
        /\ (Answered(r) /\ r.kind = "delete" /\ r.status = 200)
              => \A o \in Origins : GetImage(o, r.name, store).status = 404

\* C4: what GET /images/<name> and GET / answer does not depend on the
\* origin: two such requests for the same name answered over the same store
\* get the same status and body; and checkDomain refuses a request exactly
\* when its method is POST, DELETE, PUT or PATCH and its origin is not in
\* the allow-list, so every other method passes whatever the origin.
C4_ReadsPublic ==
    /\ \A s, t \in Slots :
          (/\ Answered(req[s]) /\ Answered(req[t])
           /\ req[s].kind \in {"read", "health"}
           /\ req[s].kind = req[t].kind /\ req[s].name = req[t].name)
             => (/\ req[s].status = req[t].status
                 /\ req[s].body = req[t].body
                 /\ req[s].message = req[t].message)
    /\ probe # NoProbe =>
          (~probe.next <=>
              (/\ probe.method \in {"POST", "DELETE", "PUT", "PATCH"}
               /\ ~InAllowList(probe.origin)))

\* C4 witness: a stored image has been served to a request without an origin
\* and to one from an origin outside the allow-list
C4_Witness ==
    \E s, t \in Slots :
        /\ Answered(req[s]) /\ Answered(req[t])
        /\ req[s].kind = "read" /\ req[t].kind = "read"
        /\ req[s].name = req[t].name
        /\ req[s].origin = "" /\ req[t].origin = "http://localhost:5500.evil.example"
        /\ req[s].status = 200 /\ req[t].status = 200

\* C5: a delete from an allowed origin of a name that is not in the store is
\* never answered 500, and is answered 404 once the removal has been tried.
\* (The claim says 404 for every such name; this is the part of it that does
\* not depend on how the name check answers.)
C5_DeleteMissingIs404 ==
    \A s \in Slots :
        LET r == req[s] IN
        (/\ Answered(r) /\ r.kind = "delete" /\ InAllowList(r.origin)
         /\ r.name \notin DOMAIN store /\ r.status # 200)
            => (r.status # 500 /\ (r.unlinked => r.status = 404))

\* the name has a ".." segment, or holds a path separator
HasParentSegment(name) ==
    \E i \in 1..Len(Split(name)) : Split(name)[i] = <<".", ".">>

HasSeparator(name) == "/" \in Range(name)

\* C6: a delete whose name has a parent-directory segment or a path separator
\* never reaches fs.unlink; from an allowed origin it is answered 400, which
\* is not the 404 answer, and with the invalid-name message once the route's
\* handler has it; every path that is given to fs.unlink is imagesDir itself
\* or an entry directly inside it.
C6_TraversalRejected ==
    \A s \in Slots :
        LET r == req[s] IN
        r.kind = "delete" =>
            /\ (HasParentSegment(r.name) \/ HasSeparator(r.name)) =>
                  /\ ~r.unlinked /\ r.pc # "unlink"
                  /\ (Answered(r) /\ InAllowList(r.origin)) =>
                        /\ r.status = 400
                        /\ r.message # "File tidak ditemukan."
                        /\ r.gated => r.message = "Nama file tidak valid."
            /\ (r.unlinked \/ r.pc = "unlink") =>
                  (~OutsideRoot(r.path) /\ Len(r.path) <= 1)

\* C6 witness: "../a" from an allowed origin has been answered 400
C6_Witness ==
    \E s \in Slots :
        /\ Answered(req[s]) /\ req[s].kind = "delete" /\ req[s].gated
        /\ req[s].name = <<".", ".", "/", "a">>
        /\ req[s].status = 400

EndsWithWebp(f) == Len(f) >= 2 /\ SubSeq(f, Len(f) - 1, Len(f)) = <<".", "webp">>

\* the upload carries one file in field "image" of an accepted type
AcceptedFile(r) ==
    /\ r.kind = "upload" /\ r.ctype = "multipart"
    /\ r.file.present /\ r.file.fieldname = "image"
    /\ r.file.mimetype \in Range(allowedMimes)

\* C7: an upload from an allowed origin of one file in field "image" with an
\* accepted type, bytes that decode and a size of at most the ceiling is
\* answered 201 with a filename that ends in ".webp", differs from the
\* original name and is in the store.  (Bytes the request has not been asked
\* for yet count as bytes that decode; a write the disk cut short is left
\* aside.)
C7_ValidUploadSucceeds ==
    \A s \in Slots :
        LET r == req[s] IN
        (/\ Answered(r) /\ InAllowList(r.origin) /\ AcceptedFile(r)
         /\ r.size <= fileSize /\ r.buffer # "junk" /\ ~r.cut)
            => (/\ r.status = 201
                /\ EndsWithWebp(r.body)
                /\ r.body # r.originalname
                /\ r.body \in DOMAIN store)

\* the three refusals of the upload filter, for a request the gate has let
\* in.  (A request whose body express.json cannot parse never gets this far:
\* the error handler answers it 400 with the parser's message.)
WrongType(r) ==
    /\ r.kind = "upload" /\ r.gated /\ r.file.present
    /\ r.file.fieldname = "image"
    /\ r.file.mimetype \notin Range(allowedMimes)

TooLarge(r) == r.gated /\ AcceptedFile(r) /\ r.size > fileSize

NoFileSent(r) == r.kind = "upload" /\ r.gated /\ ~r.file.present

InvalidTypeMessage == "Jenis file tidak valid. Hanya gambar yang diizinkan."
TooLargeMessage == "File too large"
NoFileMessage == "Tidak ada file gambar yang diunggah."

\* C8: from an allowed origin, a file of a type outside the four accepted
\* ones is answered 400 with the invalid-type message, a file over the
\* ceiling 400 with the too-large message, a request without a file 400 with
\* the no-file message; the three messages differ, sharp has not run and no
\* name has been generated in any of the three cases, and the step that
\* answers leaves the store as it was.
C8_State ==
    /\ Cardinality({InvalidTypeMessage, TooLargeMessage, NoFileMessage}) = 3
    /\ \A s \in Slots :
          LET r == req[s] IN
          Answered(r) =>
              /\ WrongType(r) => (r.status = 400 /\ r.message = InvalidTypeMessage)
              /\ TooLarge(r) => (r.status = 400 /\ r.message = TooLargeMessage)
              /\ NoFileSent(r) => (r.status = 400 /\ r.message = NoFileMessage)
              /\ (WrongType(r) \/ TooLarge(r) \/ NoFileSent(r)) =>
                    (InAllowList(r.origin) /\ ~r.normalized /\ r.filename = <<>>)

C8_Step ==
    \A s \in Slots :
        (/\ ~Answered(req[s]) /\ Answered(req'[s])
         /\ (WrongType(req'[s]) \/ TooLarge(req'[s]) \/ NoFileSent(req'[s])))
            => store' = store

C8_FilterRejects == []C8_State /\ [][C8_Step]_vars

\* C8 witness: a file over the ceiling has been refused while the store
\* holds a file
C8_Witness ==
    \E s \in Slots :
        /\ Answered(req[s]) /\ TooLarge(req[s]) /\ req[s].status = 400
        /\ DOMAIN store # {}

\* C9: an otherwise valid upload (allowed origin, accepted file, bytes that
\* decode, a name the store can hold, a write that is not cut short) of
\* exactly fileSize bytes is answered
\* 201; one of fileSize + 1 bytes is answered 400 before all of its bytes
\* are buffered and before sharp runs.
C9_SizeBoundary ==
    \A s \in Slots :
        LET r == req[s] IN
        (Answered(r) /\ InAllowList(r.origin) /\ AcceptedFile(r)) =>
            /\ (/\ r.size = fileSize /\ r.buffer # "junk" /\ ~r.cut
                /\ ByteLen(r.filename) <= NAME_MAX)
                  => r.status = 201
            /\ r.size = fileSize + 1
                  => (r.status = 400 /\ r.buffered < r.size /\ ~r.normalized)

\* C10: an upload from an allowed origin that has passed the upload filter
\* (accepted type, size within the ceiling, handed to sharp) and whose bytes
\* do not decode or whose file cannot be written, or is written only in
\* part, is answered 500, not 400 and not 201.
C10_ProcessingFailureIs500 ==
    \A s \in Slots :
        LET r == req[s] IN
        (/\ Answered(r) /\ InAllowList(r.origin) /\ AcceptedFile(r)
         /\ r.size <= fileSize /\ r.normalized
         /\ (r.buffer = "junk" \/ ByteLen(r.filename) > NAME_MAX \/ r.cut))
            => (r.status = 500 /\ r.status \notin {400, 201})

\* C10 witness: bytes that do not decode have been answered 500
C10_Witness ==
    \E s \in Slots :
        /\ Answered(req[s]) /\ AcceptedFile(req[s]) /\ req[s].normalized
        /\ req[s].buffer = "junk" /\ req[s].status = 500

----------------------------------------------------------------------------
(* Concurrency, checked under SpecConc *)

\* both slots hold an answered delete of the same name from allowed origins
DeletePair(s, t) ==
    /\ s # t
    /\ Answered(req[s]) /\ Answered(req[t])
    /\ req[s].kind = "delete" /\ req[t].kind = "delete"
    /\ InAllowList(req[s].origin) /\ InAllowList(req[t].origin)
    /\ req[s].name = req[t].name

\* the file named name was in the store when the two deletes started: it is
\* still there, or one of them has removed it (no upload runs beside two
\* deletes, so nothing else adds or removes a file)
Existed(name, s, t) ==
    name \in DOMAIN store \/ req[s].status = 200 \/ req[t].status = 200

\* C11: when two deletes from allowed origins of the same stored file have
\* both been answered, whatever the order of their steps, one has been
\* answered 200 and the other 404, none 500, and the file is gone.
C11_ConcurrentDeletes ==
    \A s, t \in Slots :
        (DeletePair(s, t) /\ Existed(req[s].name, s, t)) =>
            /\ {req[s].status, req[t].status} = {200, 404}
            /\ req[s].name \notin DOMAIN store

\* the upload in slot s has been answered 201
Uploaded(s) ==
    Answered(req[s]) /\ req[s].kind = "upload" /\ req[s].status = 201

\* C12: in every interleaving of two uploads, the filenames of two uploads
\* answered 201 differ, also when the original filenames are the same; the
\* file of an upload answered 201 is in the store with the WebP of that
\* upload's own bytes unless a delete of that name has been answered 200;
\* and the step in which toFile writes a file writes a name that was not in
\* the store and leaves every stored file as it was.
C12_State ==
    /\ \A s, t \in Slots :
          (s # t /\ Uploaded(s) /\ Uploaded(t)) => req[s].body # req[t].body
    /\ \A s \in Slots :
          Uploaded(s) =>
              IF req[s].body \in DOMAIN store
              THEN store[req[s].body] = WebP(req[s].buffer)
              ELSE \E t \in Slots :
                      /\ Answered(req[t]) /\ req[t].kind = "delete"
                      /\ req[t].name = req[s].body /\ req[t].status = 200

C12_Step ==
    \A s \in Slots :
        (req[s].pc = "sharp" /\ Answered(req'[s])) =>
            /\ req[s].filename \notin DOMAIN store
            /\ \A n \in DOMAIN store :
                  n \in DOMAIN store' /\ store'[n] = store[n]

C12_UploadsNeverCollide == []C12_State /\ [][C12_Step]_vars

\* C12 witness: two uploads of the same original filename, in flight
\* together, have both been answered 201 and both files are in the store
C12_Witness ==
    \E s, t \in Slots :
        /\ s # t /\ Uploaded(s) /\ Uploaded(t)
        /\ req[s].originalname = req[t].originalname
        /\ req[s].body \in DOMAIN store /\ req[t].body \in DOMAIN store

----------------------------------------------------------------------------
(* Error handling and frame conditions, checked under Spec *)

ForbiddenMessage == "Forbidden: Akses dari domain ini tidak diizinkan."
NotFoundMessage == "File tidak ditemukan."
InvalidNameMessage == "Nama file tidak valid."
ProcessingMessages ==
    {"Terjadi kesalahan pada server saat memproses gambar.", "Gagal menghapus file."}

\* an upload or a delete that has been answered with something else than
\* its success
Failed(r) == Answered(r) /\ Mutating(r) /\ r.status \notin {200, 201}

\* errors that multer or express.json raise and no route handles
Unclassified(r) ==
    \/ r.message \in {MsgJsonParse, MsgUnexpectedField, MsgFileTooLarge}
    \/ r.kind = "upload" /\ r.file.present /\ r.file.fieldname # "image"
    \/ WrongType(r)
    \/ TooLarge(r)

\* some step of the request in slot s can be taken
CanStep(s) ==
    ENABLED (\/ Dispatch(s) \/ JsonBody(s) \/ CheckDomainStep(s)
             \/ MulterHeader(s) \/ MulterRead(s) \/ UploadHandler(s)
             \/ SharpDone(s) \/ DeleteHandler(s) \/ UnlinkDone(s))

\* C13: every failed upload or delete has a status among 400, 403, 404 and
\* 500 and a message, and the status is the one of the message's class
\* (forbidden 403, not found 404, processing 500, everything else 400); an
\* error of multer or express.json that no route handles is answered 400; a
\* request that is not answered yet can take a step, an answered one frees
\* its slot and a free slot takes the next request; and an answer, once
\* given, is not followed by a second one.
C13_State ==
    \A s \in Slots :
        LET r == req[s] IN
        /\ Failed(r) =>
              /\ r.status \in {400, 403, 404, 500}
              /\ r.message # ""
              /\ r.status = 403 <=> r.message = ForbiddenMessage
              /\ r.status = 404 <=> r.message = NotFoundMessage
              /\ r.status = 500 <=> r.message \in ProcessingMessages
              /\ Unclassified(r) => r.status = 400
        /\ (Mutating(r) /\ ~Answered(r)) => CanStep(s)
        /\ (s = "r1" /\ Answered(r)) => ENABLED Recycle(s)
        /\ (s = "r1" /\ r.pc = "idle") => ENABLED ArriveDelete(s)

C13_Step ==
    \A s \in Slots :
        Answered(req[s]) => (req'[s] = req[s] \/ req'[s] = IdleReq)

C13_FailuresAnswered == []C13_State /\ [][C13_Step]_vars

\* C13 witness: after an upload has stored a file, a file part in a field
\* multer does not expect has been answered 400 with multer's message
C13_Witness ==
    \E s \in Slots :
        /\ Failed(req[s]) /\ req[s].kind = "upload"
        /\ req[s].file.present /\ req[s].file.fieldname = "other"
        /\ req[s].message = MsgUnexpectedField /\ req[s].status = 400
        /\ DOMAIN store # {}

\* C14: the filename an upload has answered 201 with has no ".." segment
\* and no path separator, is accepted by the delete route's name check, and
\* the path the delete route joins from it names that file in imagesDir.
C14_StoredNameDeletable ==
    \A s \in Slots :
        Uploaded(s) =>
            /\ ~HasParentSegment(req[s].body)
            /\ ~HasSeparator(req[s].body)
            /\ ~InvalidName(req[s].body)
            /\ PathJoin(req[s].body) = <<req[s].body>>

\* the request in slot s is answered in this step: a delete of name F from
\* an allowed origin, with 200
SuccessfulDeleteStep(s, F) ==
    /\ ~Answered(req[s]) /\ Answered(req'[s])
    /\ req'[s].kind = "delete" /\ req'[s].method = "DELETE"
    /\ req'[s].name = F
    /\ req'[s].gated /\ InAllowList(req'[s].origin)
    /\ req'[s].status = 200

\* C15: a stored file stays in the store with the same content through
\* every step except the one in which a delete of its name from an allowed
\* origin is answered 200; and the step that answers a delete of F with 200
\* removes F and leaves every other file as it was.
C15_Step ==
    /\ \A F \in DOMAIN store :
          (F \notin DOMAIN store' \/ store'[F] # store[F])
              => \E s \in Slots : SuccessfulDeleteStep(s, F)
    /\ \A s \in Slots :
          SuccessfulDeleteStep(s, req'[s].name) =>
              /\ req'[s].name \in DOMAIN store
              /\ DOMAIN store' = DOMAIN store \ {req'[s].name}
              /\ \A n \in DOMAIN store' : store'[n] = store[n]

C15_OnlyDeleteRemoves == [][C15_Step]_vars

\* C15 witness: a delete has been answered 200 and another file, written
\* before it, is still in the store
C15_Witness ==
    \E s \in Slots :
        /\ Answered(req[s]) /\ req[s].kind = "delete" /\ req[s].status = 200
        /\ \E n \in DOMAIN store : n # req[s].name

\* C16: an upload or a delete answered 500 carries one of the two fixed
\* messages and nothing of the error that caused it.
C16_NoInternalErrorText ==
    \A s \in Slots :
        LET r == req[s] IN
        (Answered(r) /\ Mutating(r) /\ r.status = 500) =>
            /\ r.message \in ProcessingMessages
            /\ r.error = <<>>

\* C17: the step that answers an upload with anything but 201 leaves the
\* store as it was, and so has every earlier step of that upload: the store
\* changes only in a step that answers an upload 201 or a delete 200.
C17_Step ==
    /\ \A s \in Slots :
          (/\ ~Answered(req[s]) /\ Answered(req'[s])
           /\ req'[s].kind = "upload" /\ req'[s].status # 201)
              => store' = store
    /\ store' # store =>
          \E s \in Slots :
              /\ ~Answered(req[s]) /\ Answered(req'[s])
              /\ req'[s].status \in {200, 201}

C17_FailedUploadNoEffect == [][C17_Step]_vars

====
